---- MODULE Spec2Model ----
(***************************************************************************)
(* A model of the Reliability value stream of DER-VET                      *)
(* (src/MicrogridValueStreams/Reliability.py) and of the outage simulation *)
(* of its predecessor (src/ValueStreamsDER/Reliability.py).                *)
(*                                                                         *)
(* Numbers are exact rationals << numerator, denominator >>.  The inputs   *)
(* are dyadic (dt in {1/2, 1, 2}, efficiencies in {1/2, 1}), so the        *)
(* floating point arithmetic of the source is exact on them; the decimal   *)
(* constants of the predecessor (0.2, 0.43) meet only inputs that keep     *)
(* its comparisons away from a tie.                                        *)
(*                                                                         *)
(* A Python exception is an outcome of the model: the name of the raised   *)
(* exception is kept in ret.raised and nothing is returned.                *)
(***************************************************************************)
EXTENDS Integers, Sequences, FiniteSets, TLC

VARIABLES
    self,     \* the attributes of the Reliability object
    env,      \* the scenario around it: portfolio, dispatch results, call arguments
    pc,       \* where the executing method stands
    frame,    \* the local variables of the executing method
    ret       \* the last call: its name, what it returned, what it raised

vars == << self, env, pc, frame, ret >>

\* Python's None and a present value: a sequence of no or of one element
None == << >>
Some(x) == << x >>
Val(o) == o[1]

NoError == "none"

-----------------------------------------------------------------------------
(* Exact rational arithmetic.                                              *)

Abs(n) == IF n < 0 THEN -n ELSE n

RECURSIVE GCD(_, _)
GCD(a, b) == IF b = 0 THEN a ELSE GCD(b, a % b)

\* the rational n/d in lowest terms with a positive denominator
Q(n, d) ==
    LET g == GCD(Abs(n), Abs(d))
        s == IF d < 0 THEN -1 ELSE 1
    IN  << (s * n) \div g, (s * d) \div g >>

QI(n) == << n, 1 >>
QAdd(a, b) == Q(a[1] * b[2] + b[1] * a[2], a[2] * b[2])
QSub(a, b) == Q(a[1] * b[2] - b[1] * a[2], a[2] * b[2])
QMul(a, b) == Q(a[1] * b[1], a[2] * b[2])
QDiv(a, b) == Q(a[1] * b[2], a[2] * b[1])
QNeg(a) == << -a[1], a[2] >>
QLe(a, b) == a[1] * b[2] <= b[1] * a[2]
QLt(a, b) == a[1] * b[2] < b[1] * a[2]

\* the float nan
NaN == << 0, 0 >>

\* Python's min(a, b, c): the first of the smallest arguments
QMin3(a, b, c) ==
    LET m == IF QLt(b, a) THEN b ELSE a
    IN  IF QLt(c, m) THEN c ELSE m

\* Python's int(x): truncation toward zero
QInt(a) == IF a[1] >= 0 THEN a[1] \div a[2] ELSE -((-a[1]) \div a[2])

\* numpy.round(x): to the nearest integer, halves to the even neighbour
QRound(a) ==
    LET fl == a[1] \div a[2]              \* floor, the denominator is positive
        r2 == 2 * (a[1] - fl * a[2])      \* twice the fractional part, times a[2]
    IN  IF r2 < a[2] THEN fl
        ELSE IF r2 > a[2] THEN fl + 1
        ELSE IF fl % 2 = 0 THEN fl ELSE fl + 1

-----------------------------------------------------------------------------
(* Sequences.                                                              *)

\* data.iloc[::-1]
Reverse(s) == [i \in 1..Len(s) |-> s[Len(s) + 1 - i]]

RECURSIVE SumFromTo(_, _, _)
SumFromTo(s, a, b) == IF a > b THEN 0 ELSE s[a] + SumFromTo(s, a + 1, b)

Max2(a, b) == IF a >= b THEN a ELSE b
Min2(a, b) == IF a <= b THEN a ELSE b

\* all sequences over S of length lo..hi
SeqsOf(S, lo, hi) == UNION {[1..n -> S] : n \in lo..hi}

-----------------------------------------------------------------------------
(* Bounds of the model and the input values it draws from.                 *)

MaxLen == 4                         \* longest critical-load series

Loads == {5, 10}                    \* critical load, kW
DtSet == {<<1, 2>>, <<1, 1>>, <<2, 1>>}      \* timestep, hours
Targets == {<<1, 1>>, <<2, 1>>, <<3, 1>>}     \* params['target'], hours
VarGen == {0, 5}                    \* variable generation in a window, kW
Ratings == {5, 10}                  \* combined rating of the DER mix, kW

\* the ICE entry of der_dict: absent, or a genset fleet of n units of rated_power
\* each; numIce is the number of ICE technologies of the portfolio
Portfolios ==
    { [ICE |-> None, numIce |-> 0],
      [ICE |-> Some([rated_power |-> 5, n |-> 2]), numIce |-> 1],
      [ICE |-> Some([rated_power |-> 5, n |-> 2]), numIce |-> 2] }

-----------------------------------------------------------------------------
(* Reliability.__init__                                                    *)

Reliability(params) ==
    [ outage_duration_coverage |-> params.target,
      dt                       |-> params.dt,
      post_facto_only          |-> params.post_facto_only,
      nu                       |-> Q(params.nu, 100),
      gamma                    |-> Q(params.gamma, 100),
      max_outage_duration      |-> params.max_outage_duration,
      n_2                      |-> params.n_2,
      coverage_timesteps       |-> QRound(QDiv(params.target, params.dt)),
      critical_load            |-> params.critical_load,
      reliability_requirement  |-> None,
      contribution_perc_df     |-> None,
      outage_contribution_df   |-> None,
      ice_rating               |-> 0,
      system_requirements      |-> << >> ]

NoCall == [call |-> "none", args |-> None, value |-> None, raised |-> NoError]

\* the record of a finished call
Returned(name, args, value) ==
    [call |-> name, args |-> args, value |-> value, raised |-> NoError]
Raised(name, args, exception) ==
    [call |-> name, args |-> args, value |-> None, raised |-> exception]

-----------------------------------------------------------------------------
(* Reliability.rolling_sum and calculate_system_requirements               *)

\* Series.rolling(window, min_periods=1).sum(): position j sums the window that
\* ends at j and reaches back over at most `window` positions
RollingBack(s, window) ==
    [j \in 1..Len(s) |-> SumFromTo(s, Max2(1, j - window + 1), j)]

\* the rolling sum without the two reversals: the window looks back
rolling_sum_backward(data, window) == RollingBack(data, window)

rolling_sum(data, window) == Reverse(RollingBack(Reverse(data), window))

\* pandas refuses a window shorter than min_periods = 1
RollingRaises(window) == window < 1

CalculateSystemRequirements ==
    /\ pc = "idle"
    /\ self.reliability_requirement = None
    /\ ret.raised = NoError
    /\ LET ice == IF env.der_dict.ICE # None THEN Val(env.der_dict.ICE).rated_power
                  ELSE self.ice_rating
           s1  == [self EXCEPT !.ice_rating = ice]
       IN  IF RollingRaises(self.coverage_timesteps)
           THEN /\ self' = s1
                /\ ret' = Raised("calculate_system_requirements", None, "ValueError")
           ELSE LET rs  == rolling_sum(self.critical_load, self.coverage_timesteps)
                    req == [i \in 1..Len(rs) |-> QMul(QI(rs[i]), self.dt)]
                    s2  == [s1 EXCEPT !.reliability_requirement = Some(req)]
                IN  /\ self' = IF ~self.post_facto_only
                               THEN [s2 EXCEPT !.system_requirements =
                                        << [type |-> "ene_min", name |-> "Reliability",
                                            value |-> req] >>]
                               ELSE s2
                    /\ ret' = Returned("calculate_system_requirements", None, None)
    /\ UNCHANGED << env, pc, frame >>

-----------------------------------------------------------------------------
(* Reliability.objective_constraints                                       *)

RECURSIVE MaxOf(_)
MaxOf(s) == IF Len(s) = 1 THEN s[1] ELSE Max2(s[1], MaxOf(Tail(s)))

\* cvx.NonPos(expr), evaluated at the values the expressions take
NonPos(expr) == [kind |-> "NonPos", expr |-> expr]
Satisfied(c) == c.kind = "NonPos" /\ c.expr <= 0

\* self.critical_load.loc[mask].values for the window lo..hi
Masked(s, lo, hi) == [k \in 1..(hi - lo + 1) |-> s[lo + k - 1]]

\* the constraint with the n-2 reduction left out
objective_constraints_no_n2(obj, lo, hi, tot_variable_gen, combined_rating) ==
    IF ~obj.post_facto_only
    THEN LET net == [k \in 1..(hi - lo + 1) |->
                        Masked(obj.critical_load, lo, hi)[k] - tot_variable_gen[k]]
         IN  Some(<< NonPos(MaxOf(net) - combined_rating) >>)
    ELSE None

objective_constraints(obj, lo, hi, tot_variable_gen, combined_rating) ==
    IF ~obj.post_facto_only
    THEN LET rating == IF obj.n_2 THEN combined_rating - obj.ice_rating
                       ELSE combined_rating
             net == [k \in 1..(hi - lo + 1) |->
                        Masked(obj.critical_load, lo, hi)[k] - tot_variable_gen[k]]
         IN  Some(<< NonPos(MaxOf(net) - rating) >>)
    ELSE None

ObjectiveConstraints ==
    /\ pc = "idle"
    /\ self.reliability_requirement # None
    /\ ret.call # "objective_constraints"
    /\ \E lo \in 1..Len(self.critical_load) :
       \E hi \in lo..Len(self.critical_load) :
       \E gen \in [1..(hi - lo + 1) -> VarGen] :
       \E rating \in Ratings :
          ret' = Returned("objective_constraints",
                          Some([lo |-> lo, hi |-> hi, tot_variable_gen |-> gen,
                                combined_rating |-> rating]),
                          objective_constraints(self, lo, hi, gen, rating))
    /\ UNCHANGED << self, env, pc, frame >>

-----------------------------------------------------------------------------
(* Reliability.timeseries_report                                           *)

\* a report that lists the requirement whatever post_facto_only says
timeseries_report_with_requirement(obj) ==
    << [name |-> "Total Outage Requirement (kWh)",
        data |-> Val(obj.reliability_requirement)],
       [name |-> "Critical Load (kW)", data |-> obj.critical_load] >>

timeseries_report(obj) ==
    LET crit == [name |-> "Critical Load (kW)", data |-> obj.critical_load]
        req  == [name |-> "Total Outage Requirement (kWh)",
                 data |-> Val(obj.reliability_requirement)]
    IN  IF ~obj.post_facto_only THEN << req, crit >> ELSE << crit >>

TimeseriesReport ==
    /\ pc = "idle"
    /\ self.reliability_requirement # None
    /\ ret.call # "timeseries_report"
    /\ ret' = Returned("timeseries_report", None, Some(timeseries_report(self)))
    /\ UNCHANGED << self, env, pc, frame >>

-----------------------------------------------------------------------------
(* The life of one Reliability object in a scenario.                       *)

ParamSet ==
    { [target |-> tg, dt |-> d, post_facto_only |-> pfo, nu |-> 20, gamma |-> 43,
       max_outage_duration |-> <<2, 1>>, n_2 |-> n2, critical_load |-> cl] :
        tg \in Targets, d \in DtSet, pfo \in BOOLEAN, n2 \in BOOLEAN,
        cl \in SeqsOf(Loads, 1, MaxLen) }

Init ==
    /\ \E params \in ParamSet : self = Reliability(params)
    /\ \E p \in Portfolios : env = [der_dict |-> p]
    /\ pc = "idle"
    /\ frame = None
    /\ ret = NoCall

Next ==
    \/ CalculateSystemRequirements
    \/ ObjectiveConstraints
    \/ TimeseriesReport

Spec == Init /\ [][Next]_vars

-----------------------------------------------------------------------------
(* Reliability.simulate_outage, one level of the recursion per step.       *)
(*                                                                         *)
(* A state of energy is a sequence of rationals: none for None, one for a  *)
(* float, several for the numpy array that line 349 makes of it when it    *)
(* multiplies the charge by the whole efficiency list.                     *)

IsArray(soe) == Len(soe) > 1

\* random.randrange(0, len(rte) - 1): the indices it can return (0-based); an
\* empty range raises ValueError
RandRange(n) == 0..(n - 2)

\* the outcome of one level: it returns 0, it raises, or it recurses with next_soe
Return0 == [kind |-> "return0", soe |-> None, raised |-> NoError]
Raise(e) == [kind |-> "raise", soe |-> None, raised |-> e]
Recurse(next_soe) == [kind |-> "next", soe |-> next_soe, raised |-> NoError]

\* lines 341-353: generation covers the load; the surplus may charge the ESS.
\* r is the index random.randrange returned, numpy tells numpy scalars from
\* Python numbers (a Python float times a list is a TypeError, a numpy float
\* times a list is an array)
SurplusBranch(obj, current_demand_left, ess_properties, init_soe, r, numpy) ==
    IF ess_properties = None THEN Recurse(init_soe)
    ELSE IF IsArray(init_soe) THEN Raise("ValueError")
    ELSE LET ess == Val(ess_properties)
             soe == init_soe[1]
         IN  IF ~QLe(soe, ess.operation_SOE_max) THEN Recurse(init_soe)
             ELSE IF RandRange(Len(ess.rte)) = {} THEN Raise("ValueError")
             ELSE LET random_rte == ess.rte[r + 1]
                      charge_possible ==
                          QDiv(QSub(ess.operation_SOE_max, soe),
                               QMul(random_rte, obj.dt))
                      charge == QMin3(charge_possible, QNeg(current_demand_left),
                                      ess.charge_max)
                  IN  IF ~numpy THEN Raise("TypeError")
                      ELSE Recurse([i \in 1..Len(ess.rte) |->
                                 QAdd(soe, QMul(QMul(charge, ess.rte[i]), obj.dt))])

\* the deficit branch without the test of line 360: a discharge that falls short
\* of the demand still counts as coverage
DeficitBranch_no_shortfall(obj, current_reliability_check, current_demand_left, ess_properties, init_soe) ==
    IF ess_properties = None THEN Return0
    ELSE IF IsArray(init_soe) THEN Raise("ValueError")
    ELSE LET ess == Val(ess_properties)
             soe == init_soe[1]
         IN  IF ~QLe(QSub(QMul(current_reliability_check, obj.gamma), soe), QI(0))
             THEN Return0
             ELSE LET discharge_possible ==
                          QDiv(QSub(soe, ess.operation_SOE_min), obj.dt)
                      discharge == QMin3(discharge_possible, current_demand_left,
                                         ess.discharge_max)
                  IN  Recurse(<< QSub(soe, QMul(discharge, obj.dt)) >>)

\* the deficit branch that forgets to take the discharge out of the state of energy
DeficitBranch_no_update(obj, current_reliability_check, current_demand_left, ess_properties, init_soe) ==
    IF ess_properties = None THEN Return0
    ELSE IF IsArray(init_soe) THEN Raise("ValueError")
    ELSE LET ess == Val(ess_properties)
             soe == init_soe[1]
         IN  IF ~QLe(QSub(QMul(current_reliability_check, obj.gamma), soe), QI(0))
             THEN Return0
             ELSE LET discharge_possible ==
                          QDiv(QSub(soe, ess.operation_SOE_min), obj.dt)
                      discharge == QMin3(discharge_possible, current_demand_left,
                                         ess.discharge_max)
                  IN  IF QLt(discharge, current_demand_left) THEN Return0
                      ELSE Recurse(init_soe)

\* lines 354-368: the ESS has to serve what generation leaves uncovered
DeficitBranch(obj, current_reliability_check, current_demand_left, ess_properties, init_soe) ==
    IF ess_properties = None THEN Return0
    ELSE IF IsArray(init_soe) THEN Raise("ValueError")
    ELSE LET ess == Val(ess_properties)
             soe == init_soe[1]
         IN  IF ~QLe(QSub(QMul(current_reliability_check, obj.gamma), soe), QI(0))
             THEN Return0
             ELSE LET discharge_possible ==
                          QDiv(QSub(soe, ess.operation_SOE_min), obj.dt)
                      discharge == QMin3(discharge_possible, current_demand_left,
                                         ess.discharge_max)
                  IN  IF QLt(discharge, current_demand_left) THEN Return0
                      ELSE Recurse(<< QSub(soe, QMul(discharge, obj.dt)) >>)

\* line 337: the base case
BaseCase(reliability_check, pos, outage_left) ==
    outage_left = QI(0) \/ pos > Len(reliability_check)

\* an unwinding that also credits the level that returned 0
Unwind_credit_last(levels, dt) == QMul(QI(levels + 1), dt)

\* dt + (dt + (... + 0)): what the levels add as the recursion unwinds
RECURSIVE Unwind(_, _)
Unwind(levels, dt) == IF levels = 0 THEN QI(0) ELSE QAdd(dt, Unwind(levels - 1, dt))

\* a recursion that keeps the state of energy in the object the caller shares
PassedOn_stored(shared, next_soe) == [shared EXCEPT !.init_soe = next_soe]

\* line 370: the next level is handed slices of the two series, the same
\* ess_properties and next_soe as an argument; nothing is assigned to what the
\* caller holds
PassedOn(shared, next_soe) == shared

SimArgs ==
    Some([reliability_check |-> env.reliability_check,
          demand_left |-> env.demand_left,
          outage_left |-> env.outage_left,
          ess_properties |-> env.ess_properties,
          init_soe |-> env.init_soe])

\* the innermost call returns 0 and every level above adds dt
SimReturn ==
    /\ pc' = "idle"
    /\ env' = env
    /\ ret' = Returned("simulate_outage", SimArgs, Some(Unwind(frame.level, self.dt)))
    /\ frame' = [frame EXCEPT !.returned = TRUE]

SimRaise(e) ==
    /\ pc' = "idle"
    /\ env' = env
    /\ ret' = Raised("simulate_outage", SimArgs, e)
    /\ frame' = [frame EXCEPT !.returned = TRUE]

\* a recursion that forgets to count down the horizon
SimRecurse_keep_horizon(next_soe) ==
    /\ pc' = "simulate_outage"
    /\ env' = PassedOn(env, next_soe)
    /\ frame' = [frame EXCEPT !.pos = @ + 1,
                              !.soe = next_soe,
                              !.level = @ + 1,
                              !.prev_soe = frame.soe]
    /\ ret' = ret

\* line 370: the next level gets the series without their first entry and one
\* timestep less of horizon
SimRecurse(next_soe) ==
    /\ pc' = "simulate_outage"
    /\ env' = PassedOn(env, next_soe)
    /\ frame' = [frame EXCEPT !.pos = @ + 1,
                              !.outage_left = QSub(@, QI(1)),
                              !.soe = next_soe,
                              !.level = @ + 1,
                              !.prev_soe = frame.soe]
    /\ ret' = ret

SimOutcome(o) ==
    CASE o.kind = "return0" -> SimReturn
      [] o.kind = "raise"   -> SimRaise(o.raised)
      [] o.kind = "next"    -> SimRecurse(o.soe)

SimBase ==
    /\ pc = "simulate_outage"
    /\ BaseCase(env.reliability_check, frame.pos, frame.outage_left)
    /\ SimReturn
    /\ self' = self

SimSurplus ==
    /\ pc = "simulate_outage"
    /\ ~BaseCase(env.reliability_check, frame.pos, frame.outage_left)
    /\ QLe(QI(env.reliability_check[frame.pos]), QI(0))
    /\ \E r \in IF env.ess_properties # None /\
                   RandRange(Len(Val(env.ess_properties).rte)) # {}
                THEN RandRange(Len(Val(env.ess_properties).rte)) ELSE {0} :
          SimOutcome(SurplusBranch(self, QI(env.demand_left[frame.pos]),
                                   env.ess_properties, frame.soe, r, env.numpy))
    /\ self' = self

SimDeficit ==
    /\ pc = "simulate_outage"
    /\ ~BaseCase(env.reliability_check, frame.pos, frame.outage_left)
    /\ ~QLe(QI(env.reliability_check[frame.pos]), QI(0))
    /\ SimOutcome(DeficitBranch(self, QI(env.reliability_check[frame.pos]),
                                QI(env.demand_left[frame.pos]),
                                env.ess_properties, frame.soe))
    /\ self' = self

\* the timesteps a direct call is given: (reliability_check, demand_left) in kW,
\* demand_left <= reliability_check because the PV forecast is derated in the
\* first only: a deficit, a deficit that the full forecast turns into a surplus,
\* and a surplus
StepPairs == { << 10, 10 >>, << 5, -10 >>, << -10, -30 >> }

StepSeries == SeqsOf(StepPairs, 1, MaxLen)

Horizons == { QI(-1), QI(0), QI(2), QI(4), << 3, 2 >> }

Gammas == { 50, 100 }               \* params['gamma'], percent

\* the efficiency lists of one and of three storage units
RteLists == { << QI(1) >>, << QI(1), <<1, 2>>, <<1, 2>> >> }

EssSet ==
    { [charge_max |-> QI(cm), discharge_max |-> QI(dm), rte |-> rte,
       operation_SOE_min |-> QI(0), operation_SOE_max |-> QI(20)] :
        cm \in {5, 40}, dm \in {0, 15}, rte \in RteLists }

EssNumpy == { en \in EssSet \X BOOLEAN : Len(en[1].rte) > 1 \/ en[2] }

InitSoe == { QI(10), QI(20), QI(30) }

SimParams ==
    { [target |-> QI(1), dt |-> d, post_facto_only |-> TRUE, nu |-> 25, gamma |-> g,
       max_outage_duration |-> QI(2), n_2 |-> FALSE, critical_load |-> << >>] :
        d \in DtSet, g \in Gammas }

\* a call without storage, and calls with storage whose numbers are numpy
\* scalars or (told apart only by a list of several efficiencies) Python floats
SimEnvs ==
    { [reliability_check |-> [i \in 1..Len(s) |-> s[i][1]],
       demand_left |-> [i \in 1..Len(s) |-> s[i][2]],
       outage_left |-> h, ess_properties |-> None, init_soe |-> None,
       numpy |-> TRUE] : s \in StepSeries, h \in Horizons }
    \cup
    { [reliability_check |-> [i \in 1..Len(s) |-> s[i][1]],
       demand_left |-> [i \in 1..Len(s) |-> s[i][2]],
       outage_left |-> h, ess_properties |-> Some(en[1]), init_soe |-> << soe >>,
       numpy |-> en[2]] :
        s \in StepSeries, h \in Horizons, soe \in InitSoe, en \in EssNumpy }

InitSim ==
    /\ \E params \in SimParams : self = Reliability(params)
    /\ env \in SimEnvs
    /\ pc = "simulate_outage"
    /\ frame = [pos |-> 1, outage_left |-> env.outage_left, soe |-> env.init_soe,
                level |-> 0, prev_soe |-> env.init_soe, returned |-> FALSE]
    /\ ret = NoCall

NextSim == SimBase \/ SimSurplus \/ SimDeficit

SpecSim == InitSim /\ [][NextSim]_vars


-----------------------------------------------------------------------------
(* The outage simulation of the predecessor,                               *)
(* src/ValueStreamsDER/Reliability.py, one level of the recursion per step.*)
(* critical_load and pv_generation are pandas Series, so the generation    *)
(* left over (line 154) is a whole Series, and Python's min() over a       *)
(* Series and a number asks for the truth value of a Series: ValueError.   *)

\* ValueStreamsDER Reliability.__init__, lines 37-57
LegacyReliability(params) ==
    [ outage_duration_coverage |-> params.target,
      dt                       |-> params.dt,
      post_facto_only          |-> params.post_facto_only,
      coverage_timesteps       |-> QRound(QDiv(params.target, params.dt)),
      reliability_requirement  |->
          LET w  == QRound(QDiv(params.target, params.dt))
              rs == Reverse(RollingBack(Reverse(params.load), w))
          IN  [i \in 1..Len(rs) |-> QMul(QI(rs[i]), params.dt)] ]

PvConfidence == Q(1, 5)             \* line 153: 0.2 of the PV forecast
WorstCase == Q(43, 100)             \* line 170: 0.43

\* line 153
reliability_check1(critical_load, pv_generation, fuel_generation, pos) ==
    QRound(QSub(QSub(QI(critical_load[pos]),
                     QMul(PvConfidence, QI(pv_generation[pos]))),
                QI(fuel_generation)))

\* lines 156-166
LegacySurplus(ess_properties, init_soc) ==
    IF ess_properties = None \/ init_soc = None THEN Raise("TypeError")
    ELSE IF QLe(init_soc[1], Val(ess_properties).operation_soc_max)
         THEN Raise("ValueError")
         ELSE Recurse(init_soc)

\* lines 168-179
LegacyDeficit(check1, ess_properties, init_soc) ==
    IF ess_properties = None \/ init_soc = None THEN Raise("TypeError")
    ELSE IF QLe(QSub(QDiv(QMul(QI(check1), WorstCase),
                          Val(ess_properties).energy_cap), init_soc[1]), QI(0))
         THEN Raise("ValueError")
         ELSE Return0

LegacyArgs ==
    Some([fuel_generation |-> env.fuel_generation,
          pv_generation |-> env.pv_generation,
          critical_load |-> env.critical_load,
          dt |-> env.dt, outage_left |-> env.outage_left,
          ess_properties |-> env.ess_properties, init_soc |-> env.init_soc])

\* the innermost call returns 0 and every level above adds its own duration
LegacyReturn ==
    /\ pc' = "idle"
    /\ ret' = Returned("simulate_outage", LegacyArgs, Some(frame.acc))
    /\ frame' = [frame EXCEPT !.returned = TRUE]

LegacyRaise(e) ==
    /\ pc' = "idle"
    /\ ret' = Raised("simulate_outage", LegacyArgs, e)
    /\ frame' = [frame EXCEPT !.returned = TRUE]

\* lines 182-186
LegacyRecurse(next_soc) ==
    /\ pc' = "legacy_simulate_outage"
    /\ frame' = [frame EXCEPT !.pos = @ + 1,
                              !.outage_left = @ - 1,
                              !.soc = next_soc,
                              !.duration = QAdd(@, env.dt),
                              !.acc = QAdd(@, QAdd(frame.duration, env.dt))]
    /\ ret' = ret

LegacyOutcome(o) ==
    CASE o.kind = "return0" -> LegacyReturn
      [] o.kind = "raise"   -> LegacyRaise(o.raised)
      [] o.kind = "next"    -> LegacyRecurse(o.soe)

\* line 149; the Series are never None
LegacyBase ==
    /\ pc = "legacy_simulate_outage"
    /\ frame.outage_left = 0
    /\ LegacyReturn
    /\ UNCHANGED << self, env >>

\* line 153 on a Series that has no element left: .iloc[0] is out of bounds
LegacyPastEnd ==
    /\ pc = "legacy_simulate_outage"
    /\ frame.outage_left # 0
    /\ frame.pos > Len(env.critical_load)
    /\ LegacyRaise("IndexError")
    /\ UNCHANGED << self, env >>

LegacySimSurplus ==
    /\ pc = "legacy_simulate_outage"
    /\ frame.outage_left # 0
    /\ frame.pos <= Len(env.critical_load)
    /\ 0 >= reliability_check1(env.critical_load, env.pv_generation,
                               env.fuel_generation, frame.pos)
    /\ LegacyOutcome(LegacySurplus(env.ess_properties, frame.soc))
    /\ UNCHANGED << self, env >>

LegacySimDeficit ==
    /\ pc = "legacy_simulate_outage"
    /\ frame.outage_left # 0
    /\ frame.pos <= Len(env.critical_load)
    /\ ~(0 >= reliability_check1(env.critical_load, env.pv_generation,
                                 env.fuel_generation, frame.pos))
    /\ LegacyOutcome(LegacyDeficit(
           reliability_check1(env.critical_load, env.pv_generation,
                              env.fuel_generation, frame.pos),
           env.ess_properties, frame.soc))
    /\ UNCHANGED << self, env >>

\* (critical load, PV forecast) of a timestep, kW
LegacyPairs == { << 10, 0 >>, << 5, 10 >> }
LegacyFuel == { 0, 10 }
LegacyHorizons == { 0, 2, 6 }
LegacyEss ==
    { [charge_max |-> QI(5), discharge_max |-> QI(15), rte |-> QI(1),
       operation_soc_min |-> Q(1, 4), operation_soc_max |-> mx,
       energy_cap |-> QI(20)] : mx \in { Q(1, 2), QI(1) } }
LegacySoc == { None, Some(Q(1, 8)), Some(Q(3, 4)) }

InitLegacy ==
    /\ \E s \in SeqsOf(LegacyPairs, 1, MaxLen) :
       \E f \in LegacyFuel, d \in DtSet, h \in LegacyHorizons, soc \in LegacySoc :
       \E ess \in {None} \cup {Some(e) : e \in LegacyEss} :
          /\ env = [fuel_generation |-> f,
                    critical_load |-> [i \in 1..Len(s) |-> s[i][1]],
                    pv_generation |-> [i \in 1..Len(s) |-> s[i][2]],
                    dt |-> d, outage_left |-> h,
                    ess_properties |-> ess, init_soc |-> soc]
          /\ self = LegacyReliability([target |-> QI(2), dt |-> d,
                                       post_facto_only |-> TRUE,
                                       load |-> [i \in 1..Len(s) |-> s[i][1]]])
          /\ frame = [pos |-> 1, outage_left |-> h, soc |-> soc,
                      duration |-> QI(0), acc |-> QI(0), returned |-> FALSE]
    /\ pc = "legacy_simulate_outage"
    /\ ret = NoCall

NextLegacy == LegacyBase \/ LegacyPastEnd \/ LegacySimSurplus \/ LegacySimDeficit

SpecLegacy == InitLegacy /\ [][NextLegacy]_vars

-----------------------------------------------------------------------------
(* Reliability.load_coverage_probability, in the stages of its code: the   *)
(* collection of what simulate_outage needs (lines 227-290), one pass of   *)
(* the loop over the outage starts per step (lines 294-301), and the       *)
(* probabilities with the table built from them (lines 303-318).           *)

\* numpy's float division: 0/0 is nan, x/0 is an infinity, and neither raises
FloatDiv(n, d) ==
    IF d[1] = 0
    THEN (IF n = 0 THEN NaN ELSE << (IF n > 0 THEN 1 ELSE -1), 0 >>)
    ELSE QDiv(QI(n), d)

\* a <= b on floats: false as soon as one of them is nan
FloatLe(a, b) == a # NaN /\ b # NaN /\ QLe(a, b)

\* the smallest integer that is not below a
QCeil(a) == -((-a[1]) \div a[2])

\* line 230
frequency_zeros(obj) ==
    [i \in 1..(QInt(QDiv(obj.max_outage_duration, obj.dt)) + 1) |-> 0]

\* line 244: `technology_summary_df['Type'] is 'ESS'` compares by identity and is
\* the bool False whatever the portfolio holds, so .loc is handed the label
\* False: it raises KeyError or it selects no row, and never the ESS rows
EssLookup == { "KeyError", "no rows" }

\* lines 241-287: the arrays the simulation runs on, or the exception raised on
\* the way.  With an ICE in the summary line 276 asks an Index for .loc under
\* n-2 (AttributeError) and line 283 walks the column labels of the summary
\* instead of its rows otherwise (KeyError from size_df.loc)
tech_specs(obj, technology_summary_df, results_df, lookup) ==
    LET N == Len(obj.critical_load)
        pv == technology_summary_df.PV > 0
        reliability_check ==
            [i \in 1..N |->
                IF pv THEN QSub(QI(obj.critical_load[i]),
                                QMul(obj.nu, QI(results_df.pv_maximum[i])))
                ELSE QI(obj.critical_load[i])]
        demand_left ==
            [i \in 1..N |->
                IF pv THEN QSub(QI(obj.critical_load[i]), QI(results_df.pv_maximum[i]))
                ELSE QI(obj.critical_load[i])]
    IN  IF lookup = "KeyError"
        THEN [raised |-> "KeyError", reliability_check |-> << >>, demand_left |-> << >>]
        ELSE IF technology_summary_df.ICE > 0
        THEN [raised |-> IF obj.n_2 THEN "AttributeError" ELSE "KeyError",
              reliability_check |-> << >>, demand_left |-> << >>]
        ELSE [raised |-> NoError, reliability_check |-> reliability_check,
              demand_left |-> demand_left]

\* the call of line 297: tech_specs is empty, so ess_properties and init_soe are
\* None, no level raises, and the horizon handed over is max_outage_duration
RECURSIVE simulate_outage(_, _, _, _, _)
simulate_outage(obj, reliability_check, demand_left, pos, outage_left) ==
    IF BaseCase(reliability_check, pos, outage_left) THEN QI(0)
    ELSE LET o == IF QLe(reliability_check[pos], QI(0))
                  THEN SurplusBranch(obj, demand_left[pos], None, None, 0, TRUE)
                  ELSE DeficitBranch(obj, reliability_check[pos], demand_left[pos],
                                     None, None)
         IN  IF o.kind = "next"
             THEN QAdd(obj.dt, simulate_outage(obj, reliability_check, demand_left,
                                               pos + 1, QSub(outage_left, QI(1))))
             ELSE QI(0)

\* the denominator that counts every start
total_possible_scenarios_all_starts(obj, length) == QI(Len(obj.critical_load))

\* line 307
total_possible_scenarios(obj, length) ==
    QAdd(QSub(QI(Len(obj.critical_load)), QDiv(length, obj.dt)), QI(1))

\* the numbers k of timesteps for which longest_outage = dt + (dt + ... + 0), k
\* terms added in IEEE-754 doubles, is below k * dt: none when dt is a binary
\* fraction; for dt = 0.1 h and dt = 1/12 h the k up to 12
ShortSums(dt) ==
    IF dt = << 1, 10 >> THEN 6..12
    ELSE IF dt = << 1, 12 >> THEN { 7 }
    ELSE { }

\* line 299: int(longest_outage / self.dt) truncates, so a sum that fell short of
\* k * dt lands in bucket k - 1
FloatBucket(longest_outage, dt) ==
    LET k == QInt(QDiv(longest_outage, dt))
    IN  IF k \in ShortSums(dt) THEN k - 1 ELSE k

\* line 306: frequency_simulate_outage[int(length / self.dt):].sum(), for the
\* length reached after k passes of length += dt (the same additions as the k
\* timesteps of longest_outage, so the same truncation)
scenarios_covered(obj, frequency, k) ==
    SumFromTo(frequency, FloatBucket(QMul(QI(k), obj.dt), obj.dt) + 1, Len(frequency))

\* lines 303-310: one probability for each length dt, 2 dt, ... <= max
load_coverage_prob(obj, frequency) ==
    [k \in 1..QInt(QDiv(obj.max_outage_duration, obj.dt)) |->
        FloatDiv(scenarios_covered(obj, frequency, k),
                 total_possible_scenarios(obj, QMul(QI(k), obj.dt)))]

\* line 312: np.arange(0, max_outage_duration + dt, dt)
outage_lengths(obj) ==
    [j \in 1..QCeil(QDiv(QAdd(obj.max_outage_duration, obj.dt), obj.dt)) |->
        QMul(QI(j - 1), obj.dt)]

\* the table with a first probability computed like the others, from the whole
\* histogram and N + 1 starts
outage_coverage_first_computed(obj, frequency) ==
    [outage_length |-> outage_lengths(obj),
     load_coverage_probability |->
        << FloatDiv(SumFromTo(frequency, 1, Len(frequency)),
                    QI(Len(obj.critical_load) + 1)) >>
            \o load_coverage_prob(obj, frequency)]

\* lines 313-315: the two columns; the probability of an outage of 0 hours is
\* the constant 1 put before the computed ones
outage_coverage(obj, frequency) ==
    [outage_length |-> outage_lengths(obj),
     load_coverage_probability |-> << QI(1) >> \o load_coverage_prob(obj, frequency)]

LcpCollect ==
    /\ pc = "load_coverage_probability"
    /\ \E lookup \in EssLookup :
          LET t == tech_specs(self, env.technology_summary_df, env.results_df, lookup)
          IN  IF t.raised # NoError
              THEN /\ pc' = "idle"
                   /\ ret' = Raised("load_coverage_probability", None, t.raised)
                   /\ frame' = frame
              ELSE /\ pc' = "simulate_each_start"
                   /\ frame' = [frame EXCEPT
                                   !.frequency_simulate_outage = frequency_zeros(self),
                                   !.reliability_check = t.reliability_check,
                                   !.demand_left = t.demand_left]
                   /\ ret' = ret
    /\ UNCHANGED << self, env >>

\* a record that numbers the starts in the order they arrive in
record_outage_numbered(frequency, bucket) ==
    [frequency EXCEPT ![bucket + 1] = SumFromTo(frequency, 1, Len(frequency)) + 1]

\* line 299: frequency_simulate_outage[bucket] += 1
record_outage(frequency, bucket) == [frequency EXCEPT ![bucket + 1] = @ + 1]

\* one pass of the loop of lines 294-301
LcpSimulate ==
    /\ pc = "simulate_each_start"
    /\ frame.outage_init < Len(self.critical_load)
    /\ LET longest_outage ==
               simulate_outage(self, frame.reliability_check, frame.demand_left,
                               frame.outage_init + 1, self.max_outage_duration)
           bucket == FloatBucket(longest_outage, self.dt)
       IN  IF bucket >= Len(frame.frequency_simulate_outage)
           THEN /\ pc' = "idle"
                /\ ret' = Raised("load_coverage_probability", None, "IndexError")
                /\ frame' = [frame EXCEPT !.longest_outage = Append(@, longest_outage)]
           ELSE /\ pc' = pc
                /\ ret' = ret
                /\ frame' = [frame EXCEPT
                                !.longest_outage = Append(@, longest_outage),
                                !.frequency_simulate_outage = record_outage(@, bucket),
                                !.outage_init = @ + 1]
    /\ UNCHANGED << self, env >>

\* lines 302-318: the columns of a DataFrame must be of one length
LcpReport ==
    /\ pc = "simulate_each_start"
    /\ frame.outage_init >= Len(self.critical_load)
    /\ pc' = "idle"
    /\ LET table == outage_coverage(self, frame.frequency_simulate_outage)
       IN  ret' = IF Len(table.outage_length) # Len(table.load_coverage_probability)
                  THEN Raised("load_coverage_probability", None, "ValueError")
                  ELSE Returned("load_coverage_probability", None, Some(table))
    /\ UNCHANGED << self, env, frame >>

\* (critical load, PV maximum) of a timestep, kW
CurvePairs == { << 10, 0 >>, << 10, 40 >>, << 5, 40 >> }
MaxOutage == { QI(1), QI(2), QI(4) }        \* params['max_outage_duration'], hours

\* how many technologies of each Type the technology summary lists
Summaries == [PV : 0..1, ESS : 0..1, ICE : 0..2]

InitCurve ==
    /\ \E s \in SeqsOf(CurvePairs, 1, MaxLen) :
       \E d \in DtSet, mx \in MaxOutage, n2 \in BOOLEAN, t \in Summaries :
          /\ self = Reliability([target |-> QI(2), dt |-> d, post_facto_only |-> TRUE,
                                 nu |-> 25, gamma |-> 50, max_outage_duration |-> mx,
                                 n_2 |-> n2,
                                 critical_load |-> [i \in 1..Len(s) |-> s[i][1]]])
          /\ env = [technology_summary_df |-> t,
                    results_df |-> [pv_maximum |-> [i \in 1..Len(s) |-> s[i][2]]]]
    /\ pc = "load_coverage_probability"
    /\ frame = [frequency_simulate_outage |-> << >>, reliability_check |-> << >>,
                demand_left |-> << >>, outage_init |-> 0, longest_outage |-> << >>]
    /\ ret = NoCall

NextCurve == LcpCollect \/ LcpSimulate \/ LcpReport

SpecCurve == InitCurve /\ [][NextCurve]_vars

-----------------------------------------------------------------------------
(* The simulations of lines 297-299 run one start at a time in any order,  *)
(* each on the arrays the collection left and on its own start index, and  *)
(* each recorded in the histogram as it ends.  frame.longest_outage holds  *)
(* the result of start i at position i once that start has run, and        *)
(* frame.reordered tells that some start ran before an earlier one.        *)

\* the results so far, by start index
OutageSlots ==
    IF frame.longest_outage = << >>
    THEN [i \in 1..Len(self.critical_load) |-> None]
    ELSE frame.longest_outage

SimulateAnyStart ==
    /\ pc = "simulate_each_start"
    /\ \E i \in 1..Len(self.critical_load) :
          /\ OutageSlots[i] = None
          /\ LET longest_outage ==
                     simulate_outage(self, frame.reliability_check, frame.demand_left,
                                     i, self.max_outage_duration)
                 bucket == FloatBucket(longest_outage, self.dt)
                 slots  == [OutageSlots EXCEPT ![i] = Some(longest_outage)]
                 early  == \E j \in 1..(i - 1) : OutageSlots[j] = None
             IN  IF bucket >= Len(frame.frequency_simulate_outage)
                 THEN /\ pc' = "idle"
                      /\ ret' = Raised("load_coverage_probability", None, "IndexError")
                      /\ frame' = [frame EXCEPT !.longest_outage = slots,
                                                !.reordered = @ \/ early]
                 ELSE /\ pc' = pc
                      /\ ret' = ret
                      /\ frame' = [frame EXCEPT
                                      !.longest_outage = slots,
                                      !.reordered = @ \/ early,
                                      !.frequency_simulate_outage =
                                          record_outage(@, bucket),
                                      !.outage_init = @ + 1]
    /\ UNCHANGED << self, env >>

InitOrder ==
    /\ \E s \in SeqsOf(CurvePairs, 1, MaxLen) :
       \E d \in DtSet, mx \in MaxOutage, pv \in 0..1 :
          /\ self = Reliability([target |-> QI(2), dt |-> d, post_facto_only |-> TRUE,
                                 nu |-> 25, gamma |-> 50, max_outage_duration |-> mx,
                                 n_2 |-> FALSE,
                                 critical_load |-> [i \in 1..Len(s) |-> s[i][1]]])
          /\ env = [technology_summary_df |-> [PV |-> pv, ESS |-> 0, ICE |-> 0],
                    results_df |-> [pv_maximum |-> [i \in 1..Len(s) |-> s[i][2]]]]
    /\ pc = "load_coverage_probability"
    /\ frame = [frequency_simulate_outage |-> << >>, reliability_check |-> << >>,
                demand_left |-> << >>, outage_init |-> 0, longest_outage |-> << >>,
                reordered |-> FALSE]
    /\ ret = NoCall

NextOrder == LcpCollect \/ SimulateAnyStart

SpecOrder == InitOrder /\ [][NextOrder]_vars

-----------------------------------------------------------------------------
(* The collection and the simulation loop of load_coverage_probability on  *)
(* timesteps that are no binary fractions of an hour and on series long    *)
(* enough for the rounding of the float sums to show.  The run ends where  *)
(* the loop is left.                                                       *)

MaxSteps == 8                       \* longest series, and the horizon in hours

BucketDt == { << 1, 10 >>, << 1, 12 >>, << 1, 4 >> }

\* (critical load, PV maximum) of a timestep: covered by PV or not
BucketPairs == { << 10, 40 >>, << 10, 0 >> }

InitBucket ==
    /\ \E s \in SeqsOf(BucketPairs, 1, MaxSteps) :
       \E d \in BucketDt, ess \in 0..1 :
          /\ self = Reliability([target |-> QI(1), dt |-> d, post_facto_only |-> TRUE,
                                 nu |-> 25, gamma |-> 50,
                                 max_outage_duration |-> QI(MaxSteps), n_2 |-> FALSE,
                                 critical_load |-> [i \in 1..Len(s) |-> s[i][1]]])
          /\ env = [technology_summary_df |-> [PV |-> 1, ESS |-> ess, ICE |-> 0],
                    results_df |-> [pv_maximum |-> [i \in 1..Len(s) |-> s[i][2]]]]
    /\ pc = "load_coverage_probability"
    /\ frame = [frequency_simulate_outage |-> << >>, reliability_check |-> << >>,
                demand_left |-> << >>, outage_init |-> 0, longest_outage |-> << >>]
    /\ ret = NoCall

NextBucket == LcpCollect \/ LcpSimulate

SpecBucket == InitBucket /\ [][NextBucket]_vars

-----------------------------------------------------------------------------
(* Construction and the reliability requirement on raw inputs: a critical  *)
(* load that may hold NaN and a timestep of any sign.  Here the load is a  *)
(* series of floats.                                                       *)

IsNaN(x) == x = NaN

\* the sum pandas takes of a window with min_periods = 1: NaN are skipped, and
\* the sum is NaN only when the window holds nothing else
RECURSIVE NanSumFromTo(_, _, _)
NanSumFromTo(s, a, b) ==
    IF a > b THEN NaN
    ELSE LET rest == NanSumFromTo(s, a + 1, b)
         IN  IF IsNaN(s[a]) THEN rest
             ELSE IF IsNaN(rest) THEN s[a] ELSE QAdd(s[a], rest)

\* rolling_sum on a series of floats
rolling_sum_float(data, window) ==
    LET r == Reverse(data)
    IN  Reverse([j \in 1..Len(r) |-> NanSumFromTo(r, Max2(1, j - window + 1), j)])

\* float multiplication: NaN times anything is NaN
FloatMul(a, b) == IF IsNaN(a) \/ IsNaN(b) THEN NaN ELSE QMul(a, b)

\* __init__: line 51 divides the target by dt; a zero dt is a ZeroDivisionError
\* for a Python float and an OverflowError (int of an infinity) for a numpy one
Construct ==
    /\ pc = "__init__"
    /\ pc' = "idle"
    /\ IF env.params.dt[1] = 0
       THEN /\ \E e \in { "ZeroDivisionError", "OverflowError" } :
                  ret' = Raised("__init__", None, e)
            /\ self' = self
       ELSE /\ self' = Some(Reliability(env.params))
            /\ ret' = Returned("__init__", None, None)
    /\ UNCHANGED << env, frame >>

\* calculate_system_requirements on the constructed object
RawSystemRequirements ==
    /\ pc = "idle"
    /\ self # None
    /\ ret.call = "__init__"
    /\ LET obj == Val(self)
       IN  IF RollingRaises(obj.coverage_timesteps)
           THEN /\ self' = self
                /\ ret' = Raised("calculate_system_requirements", None, "ValueError")
           ELSE LET rs  == rolling_sum_float(obj.critical_load, obj.coverage_timesteps)
                    req == [i \in 1..Len(rs) |-> FloatMul(rs[i], obj.dt)]
                IN  /\ self' = Some([obj EXCEPT
                                       !.reliability_requirement = Some(req),
                                       !.system_requirements =
                                           IF ~obj.post_facto_only
                                           THEN << [type |-> "ene_min",
                                                    name |-> "Reliability",
                                                    value |-> req] >>
                                           ELSE @])
                    /\ ret' = Returned("calculate_system_requirements", None, None)
    /\ UNCHANGED << env, pc, frame >>

RawLoads == { QI(10), NaN }
RawDt == { QI(-1), QI(0), << 1, 2 >>, QI(1) }
RawTargets == { QI(1), QI(2) }

InitRaw ==
    /\ \E cl \in SeqsOf(RawLoads, 1, MaxLen) :
       \E d \in RawDt, tg \in RawTargets, pfo \in BOOLEAN :
          env = [params |-> [target |-> tg, dt |-> d, post_facto_only |-> pfo,
                             nu |-> 20, gamma |-> 43, max_outage_duration |-> QI(2),
                             n_2 |-> FALSE, critical_load |-> cl]]
    /\ self = None
    /\ pc = "__init__"
    /\ frame = None
    /\ ret = NoCall

NextRaw == Construct \/ RawSystemRequirements

SpecRaw == InitRaw /\ [][NextRaw]_vars

-----------------------------------------------------------------------------
(* Reliability.contribution_summary, called on the object before or after  *)
(* calculate_system_requirements.  The PV quantities are one-column frames *)
(* (agg_pv_max is built as a DataFrame), the requirement is a series.      *)

\* float arithmetic of pandas: a NaN operand gives NaN
FloatAdd(a, b) == IF IsNaN(a) \/ IsNaN(b) THEN NaN ELSE QAdd(a, b)
FloatSub(a, b) == IF IsNaN(a) \/ IsNaN(b) THEN NaN ELSE QSub(a, b)

\* a / b on floats, without exception: 0/0 is nan, x/0 an infinity
FloatQuot(a, b) ==
    IF IsNaN(a) \/ IsNaN(b) THEN NaN
    ELSE IF b[1] = 0
    THEN (IF a[1] = 0 THEN NaN ELSE << (IF a[1] > 0 THEN 1 ELSE -1), 0 >>)
    ELSE QDiv(a, b)

\* .clip(lower=0) and .clip(upper=0) of one entry: a NaN stays
ClipLower0(a) == IF IsNaN(a) THEN NaN ELSE IF QLt(a, QI(0)) THEN QI(0) ELSE a
ClipUpper0(a) == IF IsNaN(a) THEN NaN ELSE IF QLt(QI(0), a) THEN QI(0) ELSE a

\* .sum() and np.sum of a pandas object: NaN are skipped, nothing left sums to 0
RECURSIVE SkipNaSum(_, _)
SkipNaSum(s, a) ==
    IF a > Len(s) THEN QI(0)
    ELSE IF IsNaN(s[a]) THEN SkipNaSum(s, a + 1)
    ELSE QAdd(s[a], SkipNaSum(s, a + 1))

\* lines 171 and 175: a frame combined with a series matches the labels of the
\* series with the rows of the frame (the time-series rule of older pandas) or
\* with its columns (every entry NaN), depending on the pandas installed
FrameOps == { "by index", "by columns" }

\* line 213: DataFrame refuses a dict entry that is a two-dimensional array
\* (`Exception: Data must be 1-dimensional`, a ValueError in later pandas)
DimensionError == { "Exception", "ValueError" }

NoShares == [PV |-> None, Storage |-> None, ICE |-> None]

\* line 208: 1 - sum(percent_usage.keys()); the keys are the strings 'PV' and
\* 'Storage', and sum() starts 0 + 'PV'
ice_share(percent_usage) ==
    IF percent_usage.PV # None \/ percent_usage.Storage # None
    THEN [raised |-> "TypeError", value |-> NaN]
    ELSE [raised |-> NoError, value |-> QI(1)]

\* lines 160-213.  `technology_summary_df['Type'] is 'ESS'` (line 189) is the
\* bool False, so .loc raises KeyError or selects no row and lines 190-202 never
\* run.  The result names the exception raised, the two attributes as far as
\* they were assigned, and the locals percent_usage, contribution_arrays and
\* outage_energy as they stand where the method ends
contribution_summary(obj, technology_summary_df, results, lookup, align, dim) ==
    IF obj.reliability_requirement = None
    THEN [raised |-> "AttributeError", contribution_perc_df |-> None,
          outage_contribution_df |-> None, percent_usage |-> NoShares,
          contribution_arrays |-> NoShares, outage_energy |-> << >>]
    ELSE
    LET N   == Len(obj.critical_load)
        req == Val(obj.reliability_requirement)
        sum_outage_requirement == SkipNaSum(req, 1)
        pv  == technology_summary_df.PV > 0
        ice == technology_summary_df.ICE > 0
        agg_pv_max ==
            [i \in 1..N |-> IF align = "by index" THEN QI(results.pv_maximum[i])
                            ELSE NaN]
        rolled == rolling_sum_float(agg_pv_max, obj.coverage_timesteps)
        pv_window == [i \in 1..N |-> FloatMul(rolled[i], obj.dt)]
        net_outage_energy ==
            [i \in 1..N |-> IF align = "by index" THEN FloatSub(req[i], pv_window[i])
                            ELSE NaN]
        outage_energy ==
            IF pv THEN [i \in 1..N |-> ClipLower0(net_outage_energy[i])] ELSE req
        pv_outage_e ==
            [i \in 1..N |-> FloatAdd(pv_window[i], ClipUpper0(net_outage_energy[i]))]
        \* np.sum of the frame is a series with the one label 0
        usage_pv ==
            [NoShares EXCEPT !.PV =
                IF pv THEN Some(FloatQuot(SkipNaSum(pv_outage_e, 1),
                                          sum_outage_requirement))
                ELSE None]
        arrays_pv == [NoShares EXCEPT !.PV = IF pv THEN Some(pv_outage_e) ELSE None]
        share == ice_share(usage_pv)
        percent_usage ==
            IF ice /\ share.raised = NoError
            THEN [usage_pv EXCEPT !.ICE = Some(share.value)] ELSE usage_pv
        contribution_arrays ==
            IF ice /\ share.raised = NoError
            THEN [arrays_pv EXCEPT !.ICE = Some(outage_energy)] ELSE arrays_pv
        \* line 211: a series labelled 0 has no entry for the row
        \* 'Reliability contribution' and shows as NaN; a scalar fills the row
        contribution_perc_df ==
            [percent_usage EXCEPT !.PV = IF pv THEN Some(NaN) ELSE None]
    IN  IF lookup = "KeyError"
        THEN [raised |-> "KeyError", contribution_perc_df |-> None,
              outage_contribution_df |-> None, percent_usage |-> usage_pv,
              contribution_arrays |-> arrays_pv, outage_energy |-> outage_energy]
        ELSE IF ice /\ share.raised # NoError
        THEN [raised |-> share.raised, contribution_perc_df |-> None,
              outage_contribution_df |-> None, percent_usage |-> usage_pv,
              contribution_arrays |-> arrays_pv, outage_energy |-> outage_energy]
        ELSE IF pv
        THEN [raised |-> dim, contribution_perc_df |-> Some(contribution_perc_df),
              outage_contribution_df |-> None, percent_usage |-> percent_usage,
              contribution_arrays |-> contribution_arrays,
              outage_energy |-> outage_energy]
        ELSE [raised |-> NoError, contribution_perc_df |-> Some(contribution_perc_df),
              outage_contribution_df |-> Some(contribution_arrays),
              percent_usage |-> percent_usage,
              contribution_arrays |-> contribution_arrays,
              outage_energy |-> outage_energy]

ContributionSummary ==
    /\ pc = "idle"
    /\ ret.call # "contribution_summary"
    /\ \E lookup \in EssLookup, align \in FrameOps, dim \in DimensionError :
          LET r == contribution_summary(self, env.technology_summary_df, env.results,
                                        lookup, align, dim)
          IN  /\ self' = [self EXCEPT
                            !.contribution_perc_df =
                                IF r.contribution_perc_df # None
                                THEN r.contribution_perc_df ELSE @,
                            !.outage_contribution_df =
                                IF r.outage_contribution_df # None
                                THEN r.outage_contribution_df ELSE @]
              /\ frame' = [percent_usage |-> r.percent_usage,
                           contribution_arrays |-> r.contribution_arrays,
                           outage_energy |-> r.outage_energy]
              /\ ret' = IF r.raised = NoError
                        THEN Returned("contribution_summary", None, None)
                        ELSE Raised("contribution_summary", None, r.raised)
    /\ UNCHANGED << env, pc >>

\* (critical load, PV maximum) of a timestep, kW
ContributionPairs == { << 10, 0 >>, << 10, 5 >>, << 10, 40 >> }

\* the technologies of each Type in the summary
ContributionSummaries == [PV : 0..1, ESS : 0..1, ICE : 0..1]

MaxSeries == 3                      \* longest series of timesteps
StateOfEnergy == 50                 \* results['Aggregated State of Energy (kWh)']
IceRatedPower == 5                  \* der_dict['ICE'].rated_power, kW

InitContribution ==
    /\ \E s \in SeqsOf(ContributionPairs, 1, MaxSeries) :
       \E d \in { << 1, 2 >>, QI(1) }, t \in ContributionSummaries :
          /\ self = Reliability([target |-> QI(2), dt |-> d, post_facto_only |-> FALSE,
                                 nu |-> 20, gamma |-> 43, max_outage_duration |-> QI(2),
                                 n_2 |-> FALSE,
                                 critical_load |-> [i \in 1..Len(s) |-> s[i][1]]])
          /\ env = [der_dict |-> [ICE |-> IF t.ICE > 0
                                          THEN Some([rated_power |-> IceRatedPower])
                                          ELSE None],
                    technology_summary_df |-> t,
                    results |-> [pv_maximum |-> [i \in 1..Len(s) |-> s[i][2]],
                                 aggregated_soe |-> [i \in 1..Len(s) |-> StateOfEnergy]]]
    /\ pc = "idle"
    /\ frame = [percent_usage |-> NoShares, contribution_arrays |-> NoShares,
                outage_energy |-> << >>]
    /\ ret = NoCall

NextContribution == CalculateSystemRequirements \/ ContributionSummary

SpecContribution == InitContribution /\ [][NextContribution]_vars

-----------------------------------------------------------------------------
(* Claims about the reliability requirement and the sizing constraint.     *)

\* C1: once calculate_system_requirements has run with a window w >= 1, for every
\* index i the requirement is dt times the sum of the critical load over
\* i .. min(i + w, N) - 1: the window looks forward and is clipped at the end.
C1_ForwardClippedWindow ==
    self.reliability_requirement # None =>
        LET cl == self.critical_load
            w  == self.coverage_timesteps
        IN  /\ w >= 1
            /\ Len(Val(self.reliability_requirement)) = Len(cl)
            /\ \A i \in 1..Len(cl) :
                  Val(self.reliability_requirement)[i] =
                      QMul(self.dt, QI(SumFromTo(cl, i, Min2(i + w, Len(cl) + 1) - 1)))

\* the scenario of the specification: [10,10,10,10] kW, dt = 1 h, w = 2
C1_Scenario ==
    /\ self.critical_load = << 10, 10, 10, 10 >>
    /\ self.dt = QI(1)
    /\ self.coverage_timesteps = 2
    /\ self.reliability_requirement # None

\* C1 as claimed: the forward clipped window, which on the scenario gives
\* [20,20,10,10] kWh.
C1_ScenarioAsClaimed ==
    /\ C1_ForwardClippedWindow
    /\ C1_Scenario =>
          self.reliability_requirement = Some(<< QI(20), QI(20), QI(10), QI(10) >>)

\* the window of index 2 still holds two points: the scenario gives [20,20,20,10]
C1_Witness ==
    /\ C1_Scenario
    /\ self.reliability_requirement = Some(<< QI(20), QI(20), QI(20), QI(10) >>)

\* the unit rating of the genset fleet the object was given, 0 without one
LargestUnitRating ==
    IF env.der_dict.ICE # None THEN Val(env.der_dict.ICE).rated_power ELSE 0

-----------------------------------------------------------------------------
(* Claims about the outage simulation.                                     *)

SimFinished == ret.call = "simulate_outage"

SimReturned == SimFinished /\ ret.raised = NoError

\* the scenario of the specification: 10 kW for four hours, no generation, no PV,
\* a store of 20 kWh that may discharge 15 kW, simulated for 4 h from index 0
C2_Scenario ==
    /\ env.reliability_check = << 10, 10, 10, 10 >>
    /\ env.demand_left = << 10, 10, 10, 10 >>
    /\ self.dt = QI(1)
    /\ env.outage_left = QI(4)
    /\ env.ess_properties # None
    /\ Val(env.ess_properties).discharge_max = QI(15)
    /\ Val(env.ess_properties).operation_SOE_min = QI(0)
    /\ Val(env.ess_properties).operation_SOE_max = QI(20)
    /\ Val(env.ess_properties).rte = << QI(1) >>
    /\ env.init_soe = << QI(20) >>

\* C2 as claimed: the scenario returns exactly 4 h of coverage.
C2_FourHours == (C2_Scenario /\ SimFinished) => ret.value = Some(QI(4))

\* C2 as amended: the scenario returns exactly 2 h: the 20 kWh serve the 10 kW
\* load for two timesteps and the third timestep finds the store empty.
C2_TwoHours ==
    (C2_Scenario /\ SimFinished) => (ret.raised = NoError /\ ret.value = Some(QI(2)))

C2_Witness ==
    /\ C2_Scenario
    /\ SimReturned
    /\ frame.level = 2
    /\ frame.soe = << QI(0) >>
    /\ ret.value = Some(QI(2))

InsideBounds(soe, ess) ==
    \A i \in 1..Len(soe) :
        QLe(ess.operation_SOE_min, soe[i]) /\ QLe(soe[i], ess.operation_SOE_max)

\* C6: in a simulation that starts with the state of energy inside
\* [operation SOE min, operation SOE max], the state of energy carried to every
\* following timestep stays inside these bounds.
C6_SoeWithinBounds ==
    (env.ess_properties # None /\ InsideBounds(env.init_soe, Val(env.ess_properties)))
        => InsideBounds(frame.soe, Val(env.ess_properties))

NumSteps == Len(env.reliability_check)

IsCount(h) == h[2] = 1 /\ h[1] >= 0

\* a timestep that cannot be covered whatever the state of energy: generation
\* falls short and there is no storage, or the demand exceeds its discharge rate
Uncoverable(j) ==
    /\ env.reliability_check[j] > 0
    /\ \/ env.ess_properties = None
       \/ QLt(Val(env.ess_properties).discharge_max, QI(env.demand_left[j]))

C8_StopsAtDataEnd ==
    (pc = "idle" /\ frame.pos > Len(env.critical_load)) => ret.raised = NoError

-----------------------------------------------------------------------------
(* Claims about the load coverage curve.                                   *)

CurveReturned == ret.call = "load_coverage_probability" /\ ret.raised = NoError

\* the starts whose simulated outage lasted k timesteps or more
StartsCovering(k) ==
    { i \in 1..Len(frame.longest_outage) :
        QLe(QMul(QI(k), self.dt), frame.longest_outage[i]) }

\* C3: in the table load_coverage_probability returns, the probability of every
\* length L = k dt, 1 <= k <= max_outage_duration / dt, is the number of starts
\* whose simulated outage lasted L or longer divided by N - k + 1, the number of
\* starts with k timesteps of data left: later starts are not in the denominator.
C3_EligibleStarts ==
    CurveReturned =>
        LET prob == Val(ret.value).load_coverage_probability
            N    == Len(self.critical_load)
        IN  /\ Len(frame.longest_outage) = N
            /\ Len(prob) = QInt(QDiv(self.max_outage_duration, self.dt)) + 1
            /\ \A k \in 1..(Len(prob) - 1) :
                  prob[k + 1] = FloatDiv(Cardinality(StartsCovering(k)), QI(N - k + 1))

\* every start of three is covered to the end of the data; the last start cannot
\* last two timesteps and does not count against the two that can
C3_Witness ==
    /\ CurveReturned
    /\ Len(self.critical_load) = 3
    /\ self.dt = QI(1)
    /\ self.max_outage_duration = QI(2)
    /\ frame.longest_outage = << QI(2), QI(2), QI(1) >>
    /\ Val(ret.value).load_coverage_probability = << QI(1), QI(1), QI(1) >>

\* C4: the curve returned is non-increasing in the outage length.
C4_NonIncreasing ==
    CurveReturned =>
        LET prob == Val(ret.value).load_coverage_probability
        IN  \A j \in 1..(Len(prob) - 1) : FloatLe(prob[j + 1], prob[j])

\* C5: no simulated start is credited more than max_outage_duration hours, and a
\* start whose outage is coverable for max_outage_duration hours of data is
\* credited exactly max_outage_duration.
C5_CreditedAtMostMax ==
    \A i \in 1..Len(frame.longest_outage) :
        /\ QLe(frame.longest_outage[i], self.max_outage_duration)
        /\ LET k == QInt(QDiv(self.max_outage_duration, self.dt))
           IN  (/\ QMul(QI(k), self.dt) = self.max_outage_duration
                /\ i + k - 1 <= Len(self.critical_load)
                /\ \A j \in i..(i + k - 1) : QLe(frame.reliability_check[j], QI(0)))
               => frame.longest_outage[i] = self.max_outage_duration

\* C9: with n-2 requested and more than one ICE technology in the portfolio,
\* objective_constraints reports an error and returns no constraint.
C9_ConfigurationError ==
    (/\ ret.call = "objective_constraints"
     /\ self.n_2
     /\ env.der_dict.numIce > 1)
        => (ret.raised # NoError /\ ret.value = None)

-----------------------------------------------------------------------------
(* Claims about invalid inputs.                                            *)

HasNaN(series) == \E i \in 1..Len(series) : IsNaN(series[i])

InvalidInput == HasNaN(env.params.critical_load) \/ QLe(env.params.dt, QI(0))

\* C11: when the critical load holds a NaN or dt <= 0, no requirement series is
\* ever computed: construction or calculate_system_requirements fails first.
C11_InvalidInputRejected ==
    InvalidInput => (self = None \/ Val(self).reliability_requirement = None)

-----------------------------------------------------------------------------
(* Claims about storage that cannot discharge.                             *)

\* storage with discharge max 0 and a first timestep whose load exceeds the
\* variable generation, derated or not
C12_Case ==
    /\ env.ess_properties # None
    /\ Val(env.ess_properties).discharge_max = QI(0)
    /\ env.demand_left[1] > 0
    /\ env.reliability_check[1] >= env.demand_left[1]

\* C12: with discharge max 0, no generation and a critical load above the
\* variable generation at the first timestep, simulate_outage returns 0 whatever
\* the initial state of energy and the horizon.
C12_NoDischargeNoCoverage ==
    (C12_Case /\ SimFinished) => (ret.raised = NoError /\ ret.value = Some(QI(0)))

\* a full store passes the worst-case test of line 356 and fails on line 360
C12_Witness ==
    /\ C12_Case
    /\ SimReturned
    /\ env.init_soe = << QI(20) >>
    /\ env.outage_left = QI(4)
    /\ NumSteps >= 2
    /\ frame.level = 0
    /\ ret.value = Some(QI(0))

-----------------------------------------------------------------------------
(* Further claims about the load coverage curve.                           *)

\* C13: with storage in the portfolio that can serve the whole critical load
\* (the technology summary lists an ESS, of whatever size), every simulated start
\* achieves max_outage_duration and every point of the returned curve is 1.
C13_FullCoverage ==
    (env.technology_summary_df.ESS > 0 /\ CurveReturned) =>
        /\ \A i \in 1..Len(frame.longest_outage) :
              frame.longest_outage[i] = self.max_outage_duration
        /\ \A j \in 1..Len(Val(ret.value).load_coverage_probability) :
              Val(ret.value).load_coverage_probability[j] = QI(1)

AllSimulated == pc = "simulate_each_start" /\ frame.outage_init = Len(self.critical_load)

\* C14: once every start has been simulated the histogram sums to the number of
\* starts, and each bucket b counts the starts whose outage lasted b timesteps.
C14_HistogramOfSteps ==
    AllSimulated =>
        LET f == frame.frequency_simulate_outage
        IN  /\ SumFromTo(f, 1, Len(f)) = Len(self.critical_load)
            /\ \A b \in 0..(Len(f) - 1) :
                  f[b + 1] = Cardinality({ i \in 1..Len(frame.longest_outage) :
                                 frame.longest_outage[i] = QMul(QI(b), self.dt) })

\* C3: the number of starts divided by the eligible starts, once every start has
\* been simulated, is for every length L = k dt the number of starts whose
\* simulated outage lasted L or longer.
C3_CoveredStarts ==
    AllSimulated =>
        \A k \in 1..QInt(QDiv(self.max_outage_duration, self.dt)) :
            scenarios_covered(self, frame.frequency_simulate_outage, k)
                = Cardinality(StartsCovering(k))

\* C15: every probability of the curve returned lies between 0 and 1, and the
\* number of eligible starts it was divided by is positive for every length.
C15_UnitInterval ==
    CurveReturned =>
        LET prob == Val(ret.value).load_coverage_probability
        IN  /\ \A j \in 1..Len(prob) :
                  /\ prob[j][2] # 0
                  /\ QLe(QI(0), prob[j])
                  /\ QLe(prob[j], QI(1))
            /\ \A k \in 1..(Len(prob) - 1) :
                  QLt(QI(0), total_possible_scenarios(self, QMul(QI(k), self.dt)))

-----------------------------------------------------------------------------
(* Claims about contribution_summary.                                      *)

QMin2(a, b) == IF QLe(a, b) THEN a ELSE b

\* the energy PV can deliver in the window that starts at timestep i
PvAvailable(i) ==
    QMul(QI(rolling_sum(env.results.pv_maximum, self.coverage_timesteps)[i]), self.dt)

\* the credit of PV and of storage by the rule of the priority order
PvCredit(i) ==
    IF env.technology_summary_df.PV > 0
    THEN QMin2(PvAvailable(i), Val(self.reliability_requirement)[i]) ELSE QI(0)
AfterPv(i) == QSub(Val(self.reliability_requirement)[i], PvCredit(i))
StorageCredit(i) ==
    IF env.technology_summary_df.ESS > 0
    THEN QMin2(QI(env.results.aggregated_soe[i]), AfterPv(i)) ELSE QI(0)
AfterStorage(i) == QSub(AfterPv(i), StorageCredit(i))

\* C17: in the table of contributions that contribution_summary leaves, every
\* technology of the summary has its column, PV is credited min(its energy in the
\* window, the requirement), storage min(its state of energy, what PV left), and
\* the ICE no more than what storage left and nothing negative.
C17_PriorityOrder ==
    (ret.call = "contribution_summary" /\ ret.raised = NoError) =>
        LET table == Val(self.outage_contribution_df)
            N     == Len(self.critical_load)
            t     == env.technology_summary_df
        IN  /\ t.PV > 0 =>
                  /\ table.PV # None
                  /\ \A i \in 1..N : Val(table.PV)[i] = PvCredit(i)
            /\ t.ESS > 0 =>
                  /\ table.Storage # None
                  /\ \A i \in 1..N : Val(table.Storage)[i] = StorageCredit(i)
            /\ t.ICE > 0 =>
                  /\ table.ICE # None
                  /\ \A i \in 1..N :
                        /\ QLe(QI(0), Val(table.ICE)[i])
                        /\ QLe(Val(table.ICE)[i], AfterStorage(i))

ShareOf(shares, tech) == IF shares[tech] = None THEN QI(0) ELSE Val(shares[tech])

\* C18: whenever contribution_summary is called with an ICE in the summary, the
\* share of the ICE is computed without error and is 1 minus the shares of PV and
\* storage.
C18_IceShare ==
    (ret.call = "contribution_summary" /\ env.technology_summary_df.ICE > 0) =>
        /\ ret.raised # "TypeError"
        /\ self.contribution_perc_df # None =>
              LET shares == Val(self.contribution_perc_df)
              IN  /\ shares.ICE # None
                  /\ Val(shares.ICE) =
                        FloatSub(QI(1), FloatAdd(ShareOf(shares, "PV"),
                                                 ShareOf(shares, "Storage")))

CreditedOf(tech) ==
    IF frame.contribution_arrays[tech] = None THEN QI(0)
    ELSE SkipNaSum(Val(frame.contribution_arrays[tech]), 1)

\* C19: the shares contribution_summary reports sum to the energy credited over
\* the energy required, the sum is at most 1, and it is below 1 exactly when some
\* timestep keeps an outstanding requirement after the last technology.
C19_SharesSum ==
    self.contribution_perc_df # None =>
        LET shares   == Val(self.contribution_perc_df)
            total    == FloatAdd(ShareOf(shares, "PV"),
                                 FloatAdd(ShareOf(shares, "Storage"),
                                          ShareOf(shares, "ICE")))
            credited == QAdd(CreditedOf("PV"),
                             QAdd(CreditedOf("Storage"), CreditedOf("ICE")))
            required == SkipNaSum(Val(self.reliability_requirement), 1)
            left     == { i \in 1..Len(frame.outage_energy) :
                            /\ shares.ICE = None
                            /\ ~IsNaN(frame.outage_energy[i])
                            /\ QLt(QI(0), frame.outage_energy[i]) }
        IN  /\ ~IsNaN(total)
            /\ total = FloatQuot(credited, required)
            /\ QLe(total, QI(1))
            /\ QLt(total, QI(1)) <=> left # { }

-----------------------------------------------------------------------------
(* Claims about repeated runs.                                             *)

\* C20: no step of the outage simulation depends on a random choice: at every
\* level that finds a surplus, whichever index random.randrange returns for the
\* efficiency list, the level ends the same way and hands on the same state of
\* energy, so a second run from the same inputs repeats the first.
C20_NoRandomStep ==
    ( /\ pc = "simulate_outage"
      /\ ~BaseCase(env.reliability_check, frame.pos, frame.outage_left)
      /\ QLe(QI(env.reliability_check[frame.pos]), QI(0))
      /\ env.ess_properties # None ) =>
        \A r1, r2 \in RandRange(Len(Val(env.ess_properties).rte)) :
            SurplusBranch(self, QI(env.demand_left[frame.pos]), env.ess_properties,
                          frame.soe, r1, env.numpy)
          = SurplusBranch(self, QI(env.demand_left[frame.pos]), env.ess_properties,
                          frame.soe, r2, env.numpy)

-----------------------------------------------------------------------------
(* Claims about the steps of simulate_outage.                              *)

\* C21: no step of an outage simulation changes the series, the ESS properties
\* or the initial state of energy its caller passed, nor the Reliability object:
\* the state of energy evolves in the call chain only.
C21_OnlyReturnValue == [][env' = env /\ self' = self]_vars

\* a call that has returned after the state of energy moved away from init_soe
C21_Witness ==
    /\ SimReturned
    /\ frame.level >= 2
    /\ env.ess_properties # None
    /\ frame.prev_soe # env.init_soe
    /\ Val(ret.args).init_soe = env.init_soe

-----------------------------------------------------------------------------
(* Claims about the order of the simulations.                              *)

\* the histogram the loop of lines 294-301 has after the starts i, i + 1, ..., N
\* in this order, begun with the histogram f
RECURSIVE SequentialLoop(_, _)
SequentialLoop(f, i) ==
    IF i > Len(self.critical_load) THEN f
    ELSE SequentialLoop(
             record_outage(f, FloatBucket(
                 simulate_outage(self, frame.reliability_check, frame.demand_left,
                                 i, self.max_outage_duration), self.dt)),
             i + 1)

\* the starts whose bucket lies beyond the histogram
Overrunning ==
    { i \in 1..Len(self.critical_load) :
        FloatBucket(simulate_outage(self, frame.reliability_check, frame.demand_left,
                                    i, self.max_outage_duration), self.dt)
            >= Len(frame.frequency_simulate_outage) }

AllStartsRun ==
    /\ pc = "simulate_each_start"
    /\ frame.outage_init = Len(self.critical_load)

AtDeficit ==
    /\ pc = "simulate_outage"
    /\ ~BaseCase(env.reliability_check, frame.pos, frame.outage_left)
    /\ ~QLe(QI(env.reliability_check[frame.pos]), QI(0))

\* a level that is about to take the surplus branch
AtSurplus ==
    /\ pc = "simulate_outage"
    /\ ~BaseCase(env.reliability_check, frame.pos, frame.outage_left)
    /\ QLe(QI(env.reliability_check[frame.pos]), QI(0))

DeficitOutcome ==
    DeficitBranch(self, QI(env.reliability_check[frame.pos]),
                  QI(env.demand_left[frame.pos]), env.ess_properties, frame.soe)

\* storage exists, passes the worst-case check and can discharge demand_left
\* within its discharge rating and above its lower bound
CanServe ==
    /\ env.ess_properties # None
    /\ Len(frame.soe) = 1
    /\ LET ess == Val(env.ess_properties)
           soe == frame.soe[1]
           dl  == QI(env.demand_left[frame.pos])
       IN  /\ QLe(QMul(QI(env.reliability_check[frame.pos]), self.gamma), soe)
           /\ QLe(dl, ess.discharge_max)
           /\ QLe(ess.operation_SOE_min, QSub(soe, QMul(dl, self.dt)))

\* C23: a level in the deficit branch goes on to the next timestep, with the state
\* of energy lowered by demand_left * dt, exactly when storage exists, passes the
\* worst-case check and can discharge demand_left within its rating and its lower
\* bound; in every other case the level returns 0.
C23_DeficitCoverage ==
    AtDeficit =>
        IF CanServe
        THEN DeficitOutcome =
                Recurse(<< QSub(frame.soe[1],
                                QMul(QI(env.demand_left[frame.pos]), self.dt)) >>)
        ELSE DeficitOutcome = Return0

\* the indices random.randrange may return at this level
SurplusDraws ==
    IF env.ess_properties # None /\ RandRange(Len(Val(env.ess_properties).rte)) # {}
    THEN RandRange(Len(Val(env.ess_properties).rte)) ELSE {0}

SurplusOutcome(r) ==
    SurplusBranch(self, QI(env.demand_left[frame.pos]), env.ess_properties,
                  frame.soe, r, env.numpy)

\* C24: a level in the surplus branch always goes on to the next timestep; the
\* state of energy it hands on is one number, not below the current one, and the
\* energy added is at most what charge max and the surplus -demand_left deliver
\* in a timestep.
C24_SurplusCharges ==
    AtSurplus =>
        \A r \in SurplusDraws :
            LET o == SurplusOutcome(r)
            IN  /\ o.kind = "next"
                /\ env.ess_properties = None => o.soe = frame.soe
                /\ env.ess_properties # None =>
                      LET ess   == Val(env.ess_properties)
                          added == QSub(o.soe[1], frame.soe[1])
                      IN  /\ Len(o.soe) = 1
                          /\ QLe(QI(0), added)
                          /\ QLe(added, QMul(ess.charge_max, self.dt))
                          /\ QLe(added, QMul(QI(-env.demand_left[frame.pos]), self.dt))

\* C25: a level in the deficit branch that goes on to the next timestep has
\* discharged: the state of energy it hands on is not above the current one.
C25_OnlyDischarges ==
    (AtDeficit /\ DeficitOutcome.kind = "next") =>
        QLe(DeficitOutcome.soe[1], frame.soe[1])

-----------------------------------------------------------------------------
(* Claims about the generation the coverage simulation counts on.          *)

\* size_df of the ICE technologies: 'Quantity' and 'Power Capacity (kW)'
IceSizing == [Quantity |-> 2, Power_Capacity |-> 5]

\* the capability the claim names: the fleet without one unit under n-2, the
\* whole fleet of every ICE technology otherwise
IceCapability ==
    IF self.n_2
    THEN Max2(IceSizing.Quantity - 1, 0) * IceSizing.Power_Capacity
    ELSE env.technology_summary_df.ICE * IceSizing.Quantity * IceSizing.Power_Capacity

\* C26: with an ICE in the summary, once load_coverage_probability has collected
\* what the simulation needs, reliability_check and demand_left are the load less
\* the (derated, full) PV maximum less the ICE capability at every timestep.
C26_IceCapability ==
    (env.technology_summary_df.ICE > 0 /\ pc # "load_coverage_probability") =>
        LET N  == Len(self.critical_load)
            pv == [i \in 1..N |->
                      IF env.technology_summary_df.PV > 0
                      THEN env.results_df.pv_maximum[i] ELSE 0]
        IN  /\ Len(frame.reliability_check) = N
            /\ Len(frame.demand_left) = N
            /\ \A i \in 1..N :
                  /\ frame.reliability_check[i] =
                        QSub(QSub(QI(self.critical_load[i]), QMul(self.nu, QI(pv[i]))),
                             QI(IceCapability))
                  /\ frame.demand_left[i] =
                        QSub(QI(self.critical_load[i] - pv[i]), QI(IceCapability))

-----------------------------------------------------------------------------
(* Claims about the length of the recursion.                               *)

IsWholeHorizon(h) == h[2] = 1 /\ h[1] >= 0

\* the data points a level still has before it
RemainingData(f) == Len(env.reliability_check) + 1 - f.pos

\* the levels a call has opened never outnumber the data points nor, for a whole
\* non-negative horizon, the timesteps of the horizon
WithinBudget(f) ==
    /\ RemainingData(f) >= 0
    /\ f.level <= Len(env.reliability_check)
    /\ IsWholeHorizon(env.outage_left) => f.level <= env.outage_left[1]

\* C27: every call of simulate_outage ends, whatever the horizon (zero, whole,
\* fractional or negative): a level either ends the call or opens one more level
\* with strictly less horizon and strictly less data left, and the levels opened
\* never exceed min(horizon, data points) when the horizon is a whole number >= 0
\* nor the data points in any case
C27_Terminates ==
    [][/\ WithinBudget(frame)
       /\ WithinBudget(frame')
       /\ pc = "simulate_outage"
       /\ \/ pc' = "idle"
          \/ /\ pc' = "simulate_outage"
             /\ frame'.level = frame.level + 1
             /\ QLt(frame'.outage_left, frame.outage_left)
             /\ RemainingData(frame') < RemainingData(frame)]_vars

C27_Witness ==
    /\ SimReturned
    /\ QLt(env.outage_left, QI(0))
    /\ Len(env.reliability_check) >= 3
    /\ frame.level = Len(env.reliability_check)
    /\ RemainingData(frame) = 0

\* a whole call of simulate_outage from timestep pos on, as the set of runs the
\* random draws allow: what the call raises or returns and the state of energy
\* each level was entered with
RECURSIVE OutageRuns(_, _, _, _, _)
OutageRuns(obj, e, pos, soe, outage_left) ==
    IF BaseCase(e.reliability_check, pos, outage_left)
    THEN { [raised |-> NoError, value |-> QI(0), soes |-> << soe >>] }
    ELSE LET draws == IF e.ess_properties # None /\
                         RandRange(Len(Val(e.ess_properties).rte)) # {}
                      THEN RandRange(Len(Val(e.ess_properties).rte)) ELSE {0}
             outs == IF QLe(QI(e.reliability_check[pos]), QI(0))
                     THEN { SurplusBranch(obj, QI(e.demand_left[pos]),
                                          e.ess_properties, soe, r, e.numpy) :
                              r \in draws }
                     ELSE { DeficitBranch(obj, QI(e.reliability_check[pos]),
                                          QI(e.demand_left[pos]),
                                          e.ess_properties, soe) }
         IN  UNION { IF o.kind = "next"
                     THEN { [raised |-> u.raised,
                             value |-> IF u.raised = NoError
                                       THEN QAdd(obj.dt, u.value) ELSE u.value,
                             soes |-> << soe >> \o u.soes] :
                              u \in OutageRuns(obj, e, pos + 1, o.soe,
                                               QSub(outage_left, QI(1))) }
                     ELSE { [raised |-> o.raised, value |-> QI(0),
                             soes |-> << soe >>] } : o \in outs }

\* the same call with a horizon that never runs out
UnboundedRuns == OutageRuns(self, env, 1, env.init_soe, QI(-1))

\* the run without horizon that took the draws of the run under way
SameDraws(u) ==
    /\ frame.level + 1 <= Len(u.soes)
    /\ u.soes[frame.level + 1] = frame.soe
    /\ frame.level > 0 => u.soes[frame.level] = frame.prev_soe

\* C28: with a horizon of h whole timesteps the call returns min(what it returns
\* without horizon, h * dt), and the state of energy of every level is the one
\* the call without horizon has at that level
C28_HorizonCut ==
    (pc \in {"simulate_outage", "idle"} /\ IsWholeHorizon(env.outage_left)) =>
        \E u \in UnboundedRuns :
            /\ SameDraws(u)
            /\ SimFinished =>
                  /\ ret.raised = NoError
                  /\ u.raised = NoError
                  /\ Val(ret.value) = QMin2(u.value, QMul(env.outage_left, self.dt))

\* the same where no level meets line 349 (no storage, or no surplus to store)
C28_HorizonCutNoCharge ==
    (\/ env.ess_properties = None
     \/ \A i \in 1..Len(env.reliability_check) : env.reliability_check[i] > 0)
        => C28_HorizonCut

\* C29: when the summary holds PV, storage and an ICE, contribution_summary
\* leaves a table whose three columns add up, at every timestep, to the
\* reliability requirement; the ICE column is what the requirement leaves after
\* PV and storage, whatever the rating of the ICE.
C29_ContributionsBalance ==
    ( /\ ret.call = "contribution_summary"
      /\ self.reliability_requirement # None
      /\ env.technology_summary_df.PV > 0
      /\ env.technology_summary_df.ESS > 0
      /\ env.technology_summary_df.ICE > 0 ) =>
        /\ ret.raised = NoError
        /\ self.outage_contribution_df # None
        /\ LET table == Val(self.outage_contribution_df)
               req   == Val(self.reliability_requirement)
           IN  /\ table.PV # None /\ table.Storage # None /\ table.ICE # None
               /\ \A i \in 1..Len(req) :
                     /\ FloatAdd(Val(table.PV)[i],
                                 FloatAdd(Val(table.Storage)[i], Val(table.ICE)[i]))
                           = req[i]
                     /\ Val(table.ICE)[i]
                           = FloatSub(FloatSub(req[i], Val(table.PV)[i]),
                                      Val(table.Storage)[i])

\* the same for a summary that holds an ICE only: the one column is the requirement
C29_IceAlone ==
    ( /\ ret.call = "contribution_summary"
      /\ env.technology_summary_df.PV = 0
      /\ env.technology_summary_df.ICE > 0
      /\ ret.raised = NoError ) =>
        /\ self.outage_contribution_df # None
        /\ Val(self.outage_contribution_df).ICE
              = Some(Val(self.reliability_requirement))

ColumnsOf(report) == { report[k].name : k \in 1..Len(report) }

\* C30: post_facto_only switches off the three parts of sizing and nothing else.
\* calculate_system_requirements computes the reliability requirement either way
\* and registers the 'ene_min' requirement only when post_facto_only is false;
\* objective_constraints returns its inequality only when it is false;
\* timeseries_report always lists the critical load and lists 'Total Outage
\* Requirement (kWh)' only when it is false
C30_PostFactoOnly ==
    /\ (ret.call = "calculate_system_requirements" /\ ret.raised = NoError) =>
           self.reliability_requirement # None
    /\ self.reliability_requirement # None =>
           IF self.post_facto_only
           THEN self.system_requirements = << >>
           ELSE /\ Len(self.system_requirements) = 1
                /\ self.system_requirements[1].type = "ene_min"
                /\ self.system_requirements[1].value =
                      Val(self.reliability_requirement)
    /\ ret.call = "objective_constraints" =>
           IF self.post_facto_only THEN ret.value = None
           ELSE ret.value # None /\ Len(Val(ret.value)) = 1
    /\ ret.call = "timeseries_report" =>
           /\ "Critical Load (kW)" \in ColumnsOf(Val(ret.value))
           /\ "Total Outage Requirement (kWh)" \in ColumnsOf(Val(ret.value))
                 <=> ~self.post_facto_only

\* a post-facto run: the requirement is computed, nothing is registered and the
\* report holds the critical load only
C30_Witness ==
    /\ self.post_facto_only
    /\ ret.call = "timeseries_report"
    /\ self.reliability_requirement # None
    /\ Len(self.critical_load) >= 2
    /\ self.system_requirements = << >>
    /\ ColumnsOf(Val(ret.value)) = { "Critical Load (kW)" }

====
